---- MODULE Spec2Model ----
(***************************************************************************)
(* A model of cmake/doxytest.py: the fenced-code-block extractor, the      *)
(* harness generator together with the run of the program it generates,   *)
(* the input scanner / naming resolver of main(), and the staleness gate.  *)
(* Text is modelled as sequences of one-character strings so that prefix   *)
(* stripping, trimming and case folding are computed as the code does.     *)
(***************************************************************************)
EXTENDS Integers, Sequences, FiniteSets, TLC

VARIABLES
    \* extract_code_blocks: the lines read, the scan position and the locals
    lines, i, code_blocks, block_kind, start_line, allowed_prefixes,
    code_content, xpc,
    \* should_regenerate_test_file: the arguments, what the file system says, the result
    force, test_exists, header_mtime, test_mtime, regenerate, gate_pc,
    \* generate_test_file / generate_combined_test_file: the arguments and the locals
    entries, combined, max_fails, gen_pc, entry_idx, block_idx, pending_setups,
    run_comment_emitted, test_body_lines, test_count,
    \* the generated program: its variables, what it printed, its exit status
    stmt, header_file, header_line, test, test_passed, fails, failed_messages,
    stderr, exit_status,
    \* main: the arguments, the locals of the scan, naming and processing loops
    input_paths, combined_requested, always, args_force, main_pc, scan_idx,
    files_to_process, directory_matches, seen_files, output_name_map,
    used_output_names, proc_idx, dir_idx, files_encountered, total_success,
    combined_entries, exit_code,
    \* the file system as main and process_header_file see it: whether the
    \* outputs were there before the run, the outputs written, the files read
    prebuilt, written, extracted

exVars == <<lines, i, code_blocks, block_kind, start_line, allowed_prefixes,
            code_content, xpc>>

gateVars == <<force, test_exists, header_mtime, test_mtime, regenerate, gate_pc>>

genVars == <<entries, combined, max_fails, gen_pc, entry_idx, block_idx,
             pending_setups, run_comment_emitted, test_body_lines, test_count>>

runVars == <<stmt, header_file, header_line, test, test_passed, fails,
             failed_messages, stderr, exit_status>>

mainVars == <<input_paths, combined_requested, always, args_force, main_pc,
              scan_idx, files_to_process, directory_matches, seen_files,
              output_name_map, used_output_names, proc_idx, dir_idx,
              files_encountered, total_success, combined_entries, exit_code,
              prebuilt, written, extracted>>

vars == <<exVars, gateVars, genVars, runVars, mainVars>>

\* Python's None
None == "None"

(***************************************************************************)
(* Bounds                                                                  *)
(***************************************************************************)
\* Largest number of lines of a scanned file
MaxLines == 3
\* Largest modification time of a file
MaxTime == 4
\* Largest number of code blocks handed to one generator call
MaxBlocks == 4
\* Largest number of source files of a combined harness
MaxEntries == 2
\* Largest value of --max_fails
MaxMaxFails == 2
\* Largest number of lines of a file of several blocks
MaxBlockLines == 5
\* Largest number of paths on the command line
MaxInputs == 2

(***************************************************************************)
(* Text helpers (str methods of Python, on sequences of characters)        *)
(***************************************************************************)
NL == <<"\n">>
\* The backtick character (written as a token: the lexer does not take it in a string)
BT == "BACKTICK"
FENCE == <<BT, BT, BT>>

IsSpace(c) == c \in {" ", "\t", "\n"}

startswith(s, p) == Len(s) >= Len(p) /\ SubSeq(s, 1, Len(p)) = p

RECURSIVE lstrip(_)
lstrip(s) == IF s # <<>> /\ IsSpace(Head(s)) THEN lstrip(Tail(s)) ELSE s

RECURSIVE rstrip(_)
rstrip(s) ==
    IF s # <<>> /\ IsSpace(s[Len(s)]) THEN rstrip(SubSeq(s, 1, Len(s) - 1)) ELSE s

strip(s) == rstrip(lstrip(s))

\* str.rstrip("\n"): only trailing newlines are removed
RECURSIVE rstrip_newline(_)
rstrip_newline(s) ==
    IF s # <<>> /\ s[Len(s)] = "\n"
    THEN rstrip_newline(SubSeq(s, 1, Len(s) - 1)) ELSE s

lowerChar(c) ==
    CASE c = "C" -> "c" [] c = "P" -> "p" [] c = "D" -> "d" [] c = "O" -> "o"
      [] c = "X" -> "x" [] c = "Y" -> "y" [] c = "T" -> "t" [] c = "E" -> "e"
      [] c = "S" -> "s" [] c = "H" -> "h" [] OTHER -> c

RECURSIVE lower(_)
lower(s) == IF s = <<>> THEN <<>> ELSE <<lowerChar(Head(s))>> \o lower(Tail(s))

\* "\n".join(parts)
RECURSIVE join(_)
join(parts) ==
    IF parts = <<>> THEN <<>>
    ELSE IF Len(parts) = 1 THEN parts[1]
    ELSE parts[1] \o NL \o join(Tail(parts))

(***************************************************************************)
(* Comment prefixes                                                        *)
(***************************************************************************)
COMMENT_PREFIX_CANDIDATES ==
    << <<"/", "/", "/">>, <<"/", "/", "!">>, <<"/", "/">>,
       <<"/", "*", "!">>, <<"/", "*", "*">>, <<"/", "*">>,
       <<" ", "*">>, <<"*">> >>

\* allowed_prefixes=None of the code: no restriction, every candidate may be stripped
ANY_PREFIX == {COMMENT_PREFIX_CANDIDATES[k] : k \in 1..Len(COMMENT_PREFIX_CANDIDATES)}

\* matched_prefix=None of the code (a candidate is never empty)
NO_PREFIX == <<>>

\* Index of the first candidate the loop of _strip_comment_prefix accepts, 0 if none
MatchedCandidate(stripped_leading, allowed) ==
    LET ok == {k \in 1..Len(COMMENT_PREFIX_CANDIDATES) :
                 /\ startswith(stripped_leading, COMMENT_PREFIX_CANDIDATES[k])
                 /\ COMMENT_PREFIX_CANDIDATES[k] \in allowed}
    IN IF ok = {} THEN 0 ELSE CHOOSE k \in ok : \A m \in ok : k <= m

\* _strip_comment_prefix with the restriction to the allowed prefixes left out
_strip_comment_prefix_unrestricted(line, allowed) ==
    LET stripped_leading == lstrip(line)
        k == MatchedCandidate(stripped_leading, ANY_PREFIX)
    IN IF k # 0
       THEN LET candidate == COMMENT_PREFIX_CANDIDATES[k]
                remainder == SubSeq(stripped_leading, Len(candidate) + 1,
                                    Len(stripped_leading))
                remainder1 == IF remainder # <<>> /\ Head(remainder) \in {" ", "\t"}
                              THEN Tail(remainder) ELSE remainder
                without_newline == rstrip_newline(remainder1)
            IN <<without_newline, lstrip(without_newline), candidate>>
       ELSE LET without_newline == rstrip_newline(line)
            IN <<without_newline, lstrip(without_newline), NO_PREFIX>>

\* Returns <<text_without_prefix, text_without_prefix_lstrip, matched_prefix>>
_strip_comment_prefix(line, allowed) ==
    LET stripped_leading == lstrip(line)
        k == MatchedCandidate(stripped_leading, allowed)
    IN IF k # 0
       THEN LET candidate == COMMENT_PREFIX_CANDIDATES[k]
                remainder == SubSeq(stripped_leading, Len(candidate) + 1,
                                    Len(stripped_leading))
                remainder1 == IF remainder # <<>> /\ Head(remainder) \in {" ", "\t"}
                              THEN Tail(remainder) ELSE remainder
                without_newline == rstrip_newline(remainder1)
            IN <<without_newline, lstrip(without_newline), candidate>>
       ELSE LET without_newline == rstrip_newline(line)
            IN <<without_newline, lstrip(without_newline), NO_PREFIX>>

\* _allowed_prefixes_for_block letting every line-comment prefix continue a
\* block opened with a line-comment prefix
_allowed_prefixes_for_block_any_line_comment(prefix) ==
    IF prefix \in { <<"/", "*", "!">>, <<"/", "*", "*">>, <<"/", "*">> }
    THEN { <<"*">>, <<" ", "*">> }
    ELSE IF prefix \in { <<"*">>, <<" ", "*">> }
    THEN { <<"*">>, <<" ", "*">> }
    ELSE IF prefix \in { <<"/", "/", "/">>, <<"/", "/", "!">>, <<"/", "/">> }
    THEN { <<"/", "/", "/">>, <<"/", "/", "!">>, <<"/", "/">> }
    ELSE IF prefix # NO_PREFIX
    THEN {prefix}
    ELSE {}

_allowed_prefixes_for_block(prefix) ==
    IF prefix \in { <<"/", "*", "!">>, <<"/", "*", "*">>, <<"/", "*">> }
    THEN { <<"*">>, <<" ", "*">> }
    ELSE IF prefix \in { <<"*">>, <<" ", "*">> }
    THEN { <<"*">>, <<" ", "*">> }
    ELSE IF prefix \in { <<"/", "/", "/">>, <<"/", "/", "!">>, <<"/", "/">> }
    THEN {prefix}
    ELSE IF prefix # NO_PREFIX
    THEN {prefix}
    ELSE {}

(***************************************************************************)
(* extract_code_blocks                                                     *)
(***************************************************************************)
\* The language tag compared without folding its case
LanguageOf_case_sensitive(block_line_stripped) ==
    strip(SubSeq(block_line_stripped, 4, Len(block_line_stripped)))

\* The language tag of an opening fence: block_line_stripped[3:].strip().lower()
LanguageOf(block_line_stripped) ==
    lower(strip(SubSeq(block_line_stripped, 4, Len(block_line_stripped))))

TEST_LANGUAGES == { <<>>, <<"c", "p", "p">>, <<"c", "+", "+">> }
SETUP_LANGUAGES == { <<"d", "o", "x", "y">>,
                     <<"d", "o", "x", "y", "t", "e", "s", "t">> }

BlockKindOf(language) ==
    IF language \in TEST_LANGUAGES THEN "test"
    ELSE IF language \in SETUP_LANGUAGES THEN "setup"
    ELSE None

\* The lines a scanned file is made of
LinePool ==
    { <<"/", "/", "/", " ">> \o FENCE \o <<"c", "p", "p">> \o NL,
      <<"/", "/", "/", " ">> \o FENCE \o NL,
      <<"/", "/", "/", " ", "x">> \o NL,
      <<"/", "/", "/">> \o NL,
      <<"/", "/", "!", " ", "y">> \o NL,
      <<"/", "/", "!", " ">> \o FENCE \o NL,
      <<"/", "/", " ">> \o FENCE \o NL,
      FENCE \o NL,
      <<"z">> \o NL,
      NL,
      <<"/", "/", "/", " ">> \o FENCE \o <<" ", "D", "o", "x", "y">> \o NL,
      <<"/", "/", "/", " ">> \o FENCE \o <<"s", "h">> \o NL,
      <<"/", "/", "/", " ", BT>> \o FENCE \o <<"c", "p", "p">> \o NL,
      <<"/", "*", "*", " ">> \o FENCE \o <<"C", "+", "+", " ">> \o NL,
      <<" ", "*", " ", "w">> \o NL,
      <<" ", "*", " ">> \o FENCE \o NL,
      FENCE \o <<"d", "o", "x", "y", "t", "e", "s", "t">> \o NL }

Files == UNION {[1..n -> LinePool] : n \in 0..MaxLines}

\* lines[i] of the code (i counts from 0)
CurrentLine == lines[i + 1]

\* CloseBlock without the test of code_text
CloseBlock_keeps_empty(blocks, kind, start, content) ==
    LET code_text == strip(join(content))
    IN IF kind # None
       THEN Append(blocks, [line |-> start, code |-> code_text, kind |-> kind])
       ELSE blocks

\* code_text = "\n".join(code_content).strip(); appended when non-empty
CloseBlock(blocks, kind, start, content) ==
    LET code_text == strip(join(content))
    IN IF kind # None /\ code_text # <<>>
       THEN Append(blocks, [line |-> start, code |-> code_text, kind |-> kind])
       ELSE blocks

\* Lines of the /// family and the bare fence, for files of several blocks
BlockLinePool ==
    { <<"/", "/", "/", " ">> \o FENCE \o <<"c", "p", "p">> \o NL,
      <<"/", "/", "/", " ">> \o FENCE \o NL,
      <<"/", "/", "/", " ", "x">> \o NL,
      <<"/", "/", "/">> \o NL,
      FENCE \o NL,
      <<"/", "/", "/", " ">> \o FENCE \o <<" ", "D", "o", "x", "y">> \o NL }

BlockFiles == UNION {[1..n -> BlockLinePool] : n \in 0..MaxBlockLines}

\* extract_code_blocks is not running
ExIdle ==
    /\ lines = <<>>
    /\ i = 0
    /\ code_blocks = <<>>
    /\ block_kind = None
    /\ start_line = 0
    /\ allowed_prefixes = {}
    /\ code_content = <<>>
    /\ xpc = "idle"

ExInit ==
    /\ lines \in Files
    /\ i = 0
    /\ code_blocks = <<>>
    /\ block_kind = None
    /\ start_line = 0
    /\ allowed_prefixes = {}
    /\ code_content = <<>>
    /\ xpc = "outside"

\* extract_code_blocks starts on a file of several blocks
ExInitBlocks ==
    /\ lines \in BlockFiles
    /\ i = 0
    /\ code_blocks = <<>>
    /\ block_kind = None
    /\ start_line = 0
    /\ allowed_prefixes = {}
    /\ code_content = <<>>
    /\ xpc = "outside"

\* outer loop, a line that is not an opening fence
SkipLine ==
    /\ xpc = "outside"
    /\ i < Len(lines)
    /\ ~startswith(_strip_comment_prefix(CurrentLine, ANY_PREFIX)[2], FENCE)
    /\ i' = i + 1
    /\ UNCHANGED <<lines, code_blocks, block_kind, start_line, allowed_prefixes,
                   code_content, xpc>>

\* outer loop, an opening fence
OpenFence ==
    /\ xpc = "outside"
    /\ i < Len(lines)
    /\ LET r == _strip_comment_prefix(CurrentLine, ANY_PREFIX)
       IN /\ startswith(r[2], FENCE)
          /\ block_kind' = BlockKindOf(LanguageOf(r[2]))
          /\ allowed_prefixes' = _allowed_prefixes_for_block(r[3])
    /\ start_line' = i + 1
    /\ code_content' = <<>>
    /\ i' = i + 1
    /\ xpc' = "inblock"
    /\ UNCHANGED <<lines, code_blocks>>

\* inner loop, a line that does not close the block
CollectLine ==
    /\ xpc = "inblock"
    /\ i < Len(lines)
    /\ LET r == _strip_comment_prefix(CurrentLine, allowed_prefixes)
       IN /\ ~startswith(r[2], FENCE)
          /\ code_content' = IF block_kind # None
                             THEN Append(code_content, r[1])
                             ELSE code_content
    /\ i' = i + 1
    /\ UNCHANGED <<lines, code_blocks, block_kind, start_line, allowed_prefixes, xpc>>

\* CloseFence leaving the index on the closing fence
CloseFence_rereads_fence ==
    /\ xpc = "inblock"
    /\ i < Len(lines)
    /\ startswith(_strip_comment_prefix(CurrentLine, allowed_prefixes)[2], FENCE)
    /\ i' = i
    /\ code_blocks' = CloseBlock(code_blocks, block_kind, start_line, code_content)
    /\ xpc' = "outside"
    /\ UNCHANGED <<lines, block_kind, start_line, allowed_prefixes, code_content>>

\* inner loop, the closing fence: break, skip it, emit the block
CloseFence ==
    /\ xpc = "inblock"
    /\ i < Len(lines)
    /\ startswith(_strip_comment_prefix(CurrentLine, allowed_prefixes)[2], FENCE)
    /\ i' = i + 1
    /\ code_blocks' = CloseBlock(code_blocks, block_kind, start_line, code_content)
    /\ xpc' = "outside"
    /\ UNCHANGED <<lines, block_kind, start_line, allowed_prefixes, code_content>>

\* CloseAtEnd dropping the block that has no closing fence
CloseAtEnd_drops_block ==
    /\ xpc = "inblock"
    /\ i >= Len(lines)
    /\ code_blocks' = code_blocks
    /\ xpc' = "outside"
    /\ UNCHANGED <<lines, i, block_kind, start_line, allowed_prefixes, code_content>>

\* inner loop ends at the end of the input: emit the block
CloseAtEnd ==
    /\ xpc = "inblock"
    /\ i >= Len(lines)
    /\ code_blocks' = CloseBlock(code_blocks, block_kind, start_line, code_content)
    /\ xpc' = "outside"
    /\ UNCHANGED <<lines, i, block_kind, start_line, allowed_prefixes, code_content>>

\* outer loop ends: return code_blocks
ReturnBlocks ==
    /\ xpc = "outside"
    /\ i >= Len(lines)
    /\ xpc' = "returned"
    /\ UNCHANGED <<lines, i, code_blocks, block_kind, start_line, allowed_prefixes,
                   code_content>>

ExNext ==
    \/ SkipLine
    \/ OpenFence
    \/ CollectLine
    \/ CloseFence
    \/ CloseAtEnd
    \/ ReturnBlocks

(***************************************************************************)
(* should_regenerate_test_file                                             *)
(***************************************************************************)
\* should_regenerate_test_file regenerating an output as old as its source
should_regenerate_test_file_not_older(h_mtime, t_exists, t_mtime, force_flag) ==
    IF force_flag THEN TRUE
    ELSE IF ~t_exists THEN TRUE
    ELSE h_mtime >= t_mtime

should_regenerate_test_file(h_mtime, t_exists, t_mtime, force_flag) ==
    IF force_flag THEN TRUE
    ELSE IF ~t_exists THEN TRUE
    ELSE h_mtime > t_mtime

GateIdle ==
    /\ force = FALSE
    /\ test_exists = FALSE
    /\ header_mtime = 0
    /\ test_mtime = 0
    /\ regenerate = FALSE
    /\ gate_pc = "idle"

GateInit ==
    /\ force \in BOOLEAN
    /\ test_exists \in BOOLEAN
    /\ header_mtime \in 0..MaxTime
    /\ test_mtime \in 0..MaxTime
    /\ regenerate = FALSE
    /\ gate_pc = "called"

CallShouldRegenerate ==
    /\ gate_pc = "called"
    /\ gate_pc' = "returned"
    /\ regenerate' = should_regenerate_test_file(header_mtime, test_exists,
                                                  test_mtime, force)
    /\ UNCHANGED <<force, test_exists, header_mtime, test_mtime>>

GateNext == CallShouldRegenerate

(***************************************************************************)
(* generate_test_file and generate_combined_test_file                      *)
(***************************************************************************)
\* The display names of the source files of a harness
HEADER_DISPLAYS == <<"a.h", "b.h", "c.h">>

\* The code blocks of source file e whose kinds are ks: block b opens at line
\* 10 * b and its text is unlike every other block's
BlocksOf(e, ks) ==
    [b \in 1..Len(ks) |-> [line |-> 10 * b, code |-> <<e, b>>, kind |-> ks[b]]]

\* Kinds of the blocks of a file that has a test (process_header_file hands
\* no other file to a generator)
KindLists ==
    {ks \in UNION {[1..n -> {"test", "setup"}] : n \in 1..MaxBlocks} :
        \E b \in 1..Len(ks) : ks[b] = "test"}

RECURSIVE SumLen(_)
SumLen(kss) == IF kss = <<>> THEN 0 ELSE Len(Head(kss)) + SumLen(Tail(kss))

EntryLists(maxEntries) ==
    {[e \in 1..Len(kss) |->
         [header_display |-> HEADER_DISPLAYS[e], code_blocks |-> BlocksOf(e, kss[e])]] :
       kss \in {x \in UNION {[1..m -> KindLists] : m \in 1..maxEntries} :
                  SumLen(x) <= MaxBlocks}}

\* sum(1 for block in code_blocks if block["kind"] == "test")
RECURSIVE CountTests(_)
CountTests(blocks) ==
    IF blocks = <<>> THEN 0
    ELSE (IF Head(blocks).kind = "test" THEN 1 ELSE 0) + CountTests(Tail(blocks))

RECURSIVE TotalTests(_)
TotalTests(es) ==
    IF es = <<>> THEN 0 ELSE CountTests(Head(es).code_blocks) + TotalTests(Tail(es))

\* The lines a generator appends for the pending setup blocks
RECURSIVE SetupLines(_)
SetupLines(pending) ==
    IF pending = <<>> THEN <<>>
    ELSE <<[op |-> "setup", code |-> Head(pending).code, line |-> 0, file |-> ""]>>
         \o SetupLines(Tail(pending))

Comment(text) == [op |-> "comment", code |-> <<>>, line |-> 0, file |-> text]

\* What a generator appends to test_body_lines for a test block
EmitTest(body, pending, comment_emitted, block) ==
    body
    \o (IF pending # <<>>
        THEN <<Comment("Doxytest Setup Code")>> \o SetupLines(pending)
        ELSE <<>>)
    \o (IF ~comment_emitted THEN <<Comment("Run the tests")>> ELSE <<>>)
    \o <<[op |-> "test", code |-> block.code, line |-> block.line, file |-> ""]>>

\* The block a generator's inner loop is at
CurrentBlock == entries[entry_idx].code_blocks[block_idx + 1]

GenIdle ==
    /\ entries = <<>>
    /\ combined = FALSE
    /\ max_fails = 1
    /\ gen_pc = "idle"
    /\ entry_idx = 0
    /\ block_idx = 0
    /\ pending_setups = <<>>
    /\ run_comment_emitted = FALSE
    /\ test_body_lines = <<>>
    /\ test_count = 0

RunIdle ==
    /\ stmt = 0
    /\ header_file = ""
    /\ header_line = 0
    /\ test = 0
    /\ test_passed = TRUE
    /\ fails = 0
    /\ failed_messages = <<>>
    /\ stderr = <<>>
    /\ exit_status = -1

GenInit ==
    /\ combined \in BOOLEAN
    /\ entries \in EntryLists(IF combined THEN MaxEntries ELSE 1)
    /\ max_fails \in 1..MaxMaxFails
    /\ gen_pc = IF combined THEN "combined_entry" ELSE "perfile_blocks"
    /\ entry_idx = IF combined THEN 0 ELSE 1
    /\ block_idx = 0
    /\ pending_setups = <<>>
    /\ run_comment_emitted = FALSE
    /\ test_body_lines = <<>>
    /\ test_count = 0

\* generate_test_file, a setup block: it is buffered
PerFileSetup ==
    /\ gen_pc = "perfile_blocks"
    /\ block_idx < Len(entries[1].code_blocks)
    /\ CurrentBlock.kind = "setup"
    /\ pending_setups' = Append(pending_setups, CurrentBlock)
    /\ block_idx' = block_idx + 1
    /\ UNCHANGED <<entries, combined, max_fails, gen_pc, entry_idx,
                   run_comment_emitted, test_body_lines, test_count>>
    /\ UNCHANGED runVars

\* PerFileTest without pending_setups.clear()
PerFileTest_keeps_pending ==
    /\ gen_pc = "perfile_blocks"
    /\ block_idx < Len(entries[1].code_blocks)
    /\ CurrentBlock.kind = "test"
    /\ test_body_lines' = EmitTest(test_body_lines, pending_setups,
                                   run_comment_emitted, CurrentBlock)
    /\ pending_setups' = pending_setups
    /\ run_comment_emitted' = TRUE
    /\ block_idx' = block_idx + 1
    /\ UNCHANGED <<entries, combined, max_fails, gen_pc, entry_idx, test_count>>
    /\ UNCHANGED runVars

\* generate_test_file, a test block: the buffer is flushed, the test is emitted
PerFileTest ==
    /\ gen_pc = "perfile_blocks"
    /\ block_idx < Len(entries[1].code_blocks)
    /\ CurrentBlock.kind = "test"
    /\ test_body_lines' = EmitTest(test_body_lines, pending_setups,
                                   run_comment_emitted, CurrentBlock)
    /\ pending_setups' = <<>>
    /\ run_comment_emitted' = TRUE
    /\ block_idx' = block_idx + 1
    /\ UNCHANGED <<entries, combined, max_fails, gen_pc, entry_idx, test_count>>
    /\ UNCHANGED runVars

\* PerFileAssemble counting every block, the setup blocks too
PerFileAssemble_counts_all_blocks ==
    /\ gen_pc = "perfile_blocks"
    /\ block_idx = Len(entries[1].code_blocks)
    /\ test_count' = Len(entries[1].code_blocks)
    /\ gen_pc' = "running"
    /\ stmt' = 0
    /\ header_file' = entries[1].header_display
    /\ header_line' = 0
    /\ test' = 0
    /\ test_passed' = TRUE
    /\ fails' = 0
    /\ failed_messages' = <<>>
    /\ stderr' = <<[k |-> "running", count |-> test_count']>>
    /\ exit_status' = -1
    /\ UNCHANGED <<entries, combined, max_fails, entry_idx, block_idx,
                   pending_setups, run_comment_emitted, test_body_lines>>

\* generate_test_file past the last block: the program is assembled and started
PerFileAssemble ==
    /\ gen_pc = "perfile_blocks"
    /\ block_idx = Len(entries[1].code_blocks)
    /\ test_count' = CountTests(entries[1].code_blocks)
    /\ gen_pc' = "running"
    /\ stmt' = 0
    /\ header_file' = entries[1].header_display
    /\ header_line' = 0
    /\ test' = 0
    /\ test_passed' = TRUE
    /\ fails' = 0
    /\ failed_messages' = <<>>
    /\ stderr' = <<[k |-> "running", count |-> test_count']>>
    /\ exit_status' = -1
    /\ UNCHANGED <<entries, combined, max_fails, entry_idx, block_idx,
                   pending_setups, run_comment_emitted, test_body_lines>>

\* CombinedEnterEntry with one buffer for the whole run
CombinedEnterEntry_keeps_pending ==
    /\ gen_pc = "combined_entry"
    /\ entry_idx < Len(entries)
    /\ entry_idx' = entry_idx + 1
    /\ test_body_lines' =
          Append(test_body_lines,
                 [op |-> "header_file", code |-> <<>>, line |-> 0,
                  file |-> entries[entry_idx + 1].header_display])
    /\ pending_setups' = pending_setups
    /\ run_comment_emitted' = FALSE
    /\ block_idx' = 0
    /\ gen_pc' = "combined_blocks"
    /\ UNCHANGED <<entries, combined, max_fails, test_count>>
    /\ UNCHANGED runVars

\* CombinedEnterEntry naming the first source file for every entry
CombinedEnterEntry_first_header ==
    /\ gen_pc = "combined_entry"
    /\ entry_idx < Len(entries)
    /\ entry_idx' = entry_idx + 1
    /\ test_body_lines' =
          Append(test_body_lines,
                 [op |-> "header_file", code |-> <<>>, line |-> 0,
                  file |-> entries[1].header_display])
    /\ pending_setups' = <<>>
    /\ run_comment_emitted' = FALSE
    /\ block_idx' = 0
    /\ gen_pc' = "combined_blocks"
    /\ UNCHANGED <<entries, combined, max_fails, test_count>>
    /\ UNCHANGED runVars

\* generate_combined_test_file, the next entry: header_file is reassigned and
\* the buffer starts empty
CombinedEnterEntry ==
    /\ gen_pc = "combined_entry"
    /\ entry_idx < Len(entries)
    /\ entry_idx' = entry_idx + 1
    /\ test_body_lines' =
          Append(test_body_lines,
                 [op |-> "header_file", code |-> <<>>, line |-> 0,
                  file |-> entries[entry_idx + 1].header_display])
    /\ pending_setups' = <<>>
    /\ run_comment_emitted' = FALSE
    /\ block_idx' = 0
    /\ gen_pc' = "combined_blocks"
    /\ UNCHANGED <<entries, combined, max_fails, test_count>>
    /\ UNCHANGED runVars

\* generate_combined_test_file, a setup block of the entry
CombinedSetup ==
    /\ gen_pc = "combined_blocks"
    /\ block_idx < Len(entries[entry_idx].code_blocks)
    /\ CurrentBlock.kind = "setup"
    /\ pending_setups' = Append(pending_setups, CurrentBlock)
    /\ block_idx' = block_idx + 1
    /\ UNCHANGED <<entries, combined, max_fails, gen_pc, entry_idx,
                   run_comment_emitted, test_body_lines, test_count>>
    /\ UNCHANGED runVars

\* generate_combined_test_file, a test block of the entry
CombinedTest ==
    /\ gen_pc = "combined_blocks"
    /\ block_idx < Len(entries[entry_idx].code_blocks)
    /\ CurrentBlock.kind = "test"
    /\ test_body_lines' = EmitTest(test_body_lines, pending_setups,
                                   run_comment_emitted, CurrentBlock)
    /\ pending_setups' = <<>>
    /\ run_comment_emitted' = TRUE
    /\ block_idx' = block_idx + 1
    /\ UNCHANGED <<entries, combined, max_fails, gen_pc, entry_idx, test_count>>
    /\ UNCHANGED runVars

\* generate_combined_test_file past the last block of the entry
CombinedLeaveEntry ==
    /\ gen_pc = "combined_blocks"
    /\ block_idx = Len(entries[entry_idx].code_blocks)
    /\ gen_pc' = "combined_entry"
    /\ UNCHANGED <<entries, combined, max_fails, entry_idx, block_idx,
                   pending_setups, run_comment_emitted, test_body_lines, test_count>>
    /\ UNCHANGED runVars

\* generate_combined_test_file past the last entry: the program is assembled
\* and started
CombinedAssemble ==
    /\ gen_pc = "combined_entry"
    /\ entry_idx = Len(entries)
    /\ test_count' = TotalTests(entries)
    /\ gen_pc' = "running"
    /\ stmt' = 0
    /\ header_file' = ""
    /\ header_line' = 0
    /\ test' = 0
    /\ test_passed' = TRUE
    /\ fails' = 0
    /\ failed_messages' = <<>>
    /\ stderr' = <<[k |-> "running", count |-> test_count']>>
    /\ exit_status' = -1
    /\ UNCHANGED <<entries, combined, max_fails, entry_idx, block_idx,
                   pending_setups, run_comment_emitted, test_body_lines>>

(***************************************************************************)
(* The generated program (build_test_main_block around test_body_lines)    *)
(***************************************************************************)
\* The statements of test_body_lines, comments left out
RECURSIVE Statements(_)
Statements(body) ==
    IF body = <<>> THEN <<>>
    ELSE (IF Head(body).op = "comment" THEN <<>> ELSE <<Head(body)>>)
         \o Statements(Tail(body))

\* The statement main() is at
CurrentStatement == Statements(test_body_lines)[stmt + 1]

AtStatement(op) ==
    /\ gen_pc = "running"
    /\ stmt < Len(Statements(test_body_lines))
    /\ CurrentStatement.op = op

\* std::print(stderr, "test {}/{} ({}:{}) ... ", ++test, test_count, header_file, header_line)
ProgressLine(n, file, line) ==
    [k |-> "progress", test |-> n, test_count |-> test_count, file |-> file, line |-> line]

\* The text doxy::failed builds from header_file and header_line
FailureMessage(file, line) == [k |-> "message", file |-> file, line |-> line]

\* The lines handle_failure prints when the limit is hit
TruncationSummary(n, nfails, messages) ==
    <<[k |-> "hit_max_fails", max_fails |-> max_fails, test |-> n,
       test_count |-> test_count, passed |-> n - nfails, failed |-> nfails]>>
    \o messages

\* RunAssignHeaderFile starting the counters anew for the next source file
RunAssignHeaderFile_resets_counters ==
    /\ AtStatement("header_file")
    /\ header_file' = CurrentStatement.file
    /\ stmt' = stmt + 1
    /\ test' = 0
    /\ fails' = 0
    /\ UNCHANGED <<header_line, test_passed, failed_messages, stderr, exit_status>>
    /\ UNCHANGED genVars

\* header_file = "..."
RunAssignHeaderFile ==
    /\ AtStatement("header_file")
    /\ header_file' = CurrentStatement.file
    /\ stmt' = stmt + 1
    /\ UNCHANGED <<header_line, test, test_passed, fails, failed_messages,
                   stderr, exit_status>>
    /\ UNCHANGED genVars

\* The text of a setup block runs
RunSetupCode ==
    /\ AtStatement("setup")
    /\ stmt' = stmt + 1
    /\ UNCHANGED <<header_file, header_line, test, test_passed, fails,
                   failed_messages, stderr, exit_status>>
    /\ UNCHANGED genVars

\* RunTestPass counting the test as a failure without recording a message
RunTestPass_counts_failure ==
    /\ AtStatement("test")
    /\ header_line' = CurrentStatement.line
    /\ test_passed' = TRUE
    /\ test' = test + 1
    /\ fails' = fails + 1
    /\ stderr' = stderr \o <<ProgressLine(test + 1, header_file, CurrentStatement.line),
                             [k |-> "pass"]>>
    /\ stmt' = stmt + 1
    /\ UNCHANGED <<header_file, failed_messages, exit_status>>
    /\ UNCHANGED genVars

\* A test whose body throws no doxy::error
RunTestPass ==
    /\ AtStatement("test")
    /\ header_line' = CurrentStatement.line
    /\ test_passed' = TRUE
    /\ test' = test + 1
    /\ stderr' = stderr \o <<ProgressLine(test + 1, header_file, CurrentStatement.line),
                             [k |-> "pass"]>>
    /\ stmt' = stmt + 1
    /\ UNCHANGED <<header_file, fails, failed_messages, exit_status>>
    /\ UNCHANGED genVars

\* RunTestFail stopping only when the failures exceed the limit
RunTestFail_exceeds ==
    /\ AtStatement("test")
    /\ header_line' = CurrentStatement.line
    /\ test_passed' = FALSE
    /\ test' = test + 1
    /\ fails' = fails + 1
    /\ failed_messages' =
          Append(failed_messages, FailureMessage(header_file, CurrentStatement.line))
    /\ LET printed == stderr
                      \o <<ProgressLine(test + 1, header_file, CurrentStatement.line),
                           [k |-> "FAIL"],
                           FailureMessage(header_file, CurrentStatement.line)>>
       IN IF fails' > max_fails
          THEN /\ stderr' = printed \o TruncationSummary(test', fails', failed_messages')
               /\ exit_status' = 1
               /\ gen_pc' = "exited"
               /\ stmt' = stmt
          ELSE /\ stderr' = printed
               /\ exit_status' = exit_status
               /\ gen_pc' = gen_pc
               /\ stmt' = stmt + 1
    /\ UNCHANGED header_file
    /\ UNCHANGED <<entries, combined, max_fails, entry_idx, block_idx,
                   pending_setups, run_comment_emitted, test_body_lines, test_count>>

\* A test whose body throws doxy::error: handle_failure
RunTestFail ==
    /\ AtStatement("test")
    /\ header_line' = CurrentStatement.line
    /\ test_passed' = FALSE
    /\ test' = test + 1
    /\ fails' = fails + 1
    /\ failed_messages' =
          Append(failed_messages, FailureMessage(header_file, CurrentStatement.line))
    /\ LET printed == stderr
                      \o <<ProgressLine(test + 1, header_file, CurrentStatement.line),
                           [k |-> "FAIL"],
                           FailureMessage(header_file, CurrentStatement.line)>>
       IN IF fails' >= max_fails
          THEN /\ stderr' = printed \o TruncationSummary(test', fails', failed_messages')
               /\ exit_status' = 1
               /\ gen_pc' = "exited"
               /\ stmt' = stmt
          ELSE /\ stderr' = printed
               /\ exit_status' = exit_status
               /\ gen_pc' = gen_pc
               /\ stmt' = stmt + 1
    /\ UNCHANGED header_file
    /\ UNCHANGED <<entries, combined, max_fails, entry_idx, block_idx,
                   pending_setups, run_comment_emitted, test_body_lines, test_count>>

\* RunSummary returning 0 whatever the number of failures
RunSummary_returns_zero ==
    /\ gen_pc = "running"
    /\ stmt = Len(Statements(test_body_lines))
    /\ stderr' =
          IF fails = 0
          THEN Append(stderr, [k |-> "all_passed", test_count |-> test_count])
          ELSE stderr
               \o <<[k |-> "fail_summary", test_count |-> test_count,
                     passed |-> (IF combined THEN test_count ELSE test) - fails,
                     failed |-> fails]>>
               \o failed_messages
    /\ exit_status' = 0
    /\ gen_pc' = "returned"
    /\ UNCHANGED <<stmt, header_file, header_line, test, test_passed, fails,
                   failed_messages>>
    /\ UNCHANGED <<entries, combined, max_fails, entry_idx, block_idx,
                   pending_setups, run_comment_emitted, test_body_lines, test_count>>

\* The summary block and the return of main()
RunSummary ==
    /\ gen_pc = "running"
    /\ stmt = Len(Statements(test_body_lines))
    /\ stderr' =
          IF fails = 0
          THEN Append(stderr, [k |-> "all_passed", test_count |-> test_count])
          ELSE stderr
               \o <<[k |-> "fail_summary", test_count |-> test_count,
                     passed |-> (IF combined THEN test_count ELSE test) - fails,
                     failed |-> fails]>>
               \o failed_messages
    /\ exit_status' = IF fails > 0 THEN 1 ELSE 0
    /\ gen_pc' = "returned"
    /\ UNCHANGED <<stmt, header_file, header_line, test, test_passed, fails,
                   failed_messages>>
    /\ UNCHANGED <<entries, combined, max_fails, entry_idx, block_idx,
                   pending_setups, run_comment_emitted, test_body_lines, test_count>>

GenNext ==
    \/ PerFileSetup
    \/ PerFileTest
    \/ PerFileAssemble
    \/ CombinedEnterEntry
    \/ CombinedSetup
    \/ CombinedTest
    \/ CombinedLeaveEntry
    \/ CombinedAssemble
    \/ RunAssignHeaderFile
    \/ RunSetupCode
    \/ RunTestPass
    \/ RunTestFail
    \/ RunSummary

(***************************************************************************)
(* main: the files and directories of a run                                *)
(***************************************************************************)
\* Resolved absolute paths: three directories and the files in them
DIR_PATHS == {"inc", "src", "doc"}
FILE_PATHS == {"inc/foo.h", "inc/foo_h.h", "inc/foo_h_2.h", "src/foo.h",
               "doc/foo.md", "doc/foo.hh"}

\* The entries of a directory, sorted by lower-cased name
DirEntries(d) ==
    CASE d = "inc" -> <<"inc/foo.h", "inc/foo_h.h", "inc/foo_h_2.h">>
      [] d = "src" -> <<"src/foo.h">>
      [] d = "doc" -> <<"doc/foo.hh", "doc/foo.md">>

\* Path.stem
Stem(f) ==
    CASE f \in {"inc/foo.h", "src/foo.h", "doc/foo.md", "doc/foo.hh"} -> <<"f", "o", "o">>
      [] f = "inc/foo_h.h" -> <<"f", "o", "o", "_", "h">>
      [] f = "inc/foo_h_2.h" -> <<"f", "o", "o", "_", "h", "_", "2">>

\* Path.suffix
Suffix(f) ==
    CASE f \in {"inc/foo.h", "src/foo.h", "inc/foo_h.h", "inc/foo_h_2.h"} -> <<".", "h">>
      [] f = "doc/foo.md" -> <<".", "m", "d">>
      [] f = "doc/foo.hh" -> <<".", "h", "h">>

\* The files extract_code_blocks finds a test block in
FILES_WITH_TESTS == {"inc/foo.h", "inc/foo_h.h", "src/foo.h", "doc/foo.hh"}

DEFAULT_SUPPORTED_SUFFIXES == << <<".", "h">>, <<".", "h", "p", "p">> >>

HEADER_INCLUDE_SUFFIXES ==
    { <<".", "h">>, <<".", "h", "p", "p">>, <<".", "h", "h">>,
      <<".", "h", "x", "x">>, <<".", "h", "p">>, <<".", "h", "+", "+">> }

is_header_like_suffix(suffix) ==
    IF suffix = <<>> THEN FALSE ELSE lower(suffix) \in HEADER_INCLUDE_SUFFIXES

Range(q) == {q[k] : k \in 1..Len(q)}

\* supported_suffixes: no --extensions given
supported_suffixes == DEFAULT_SUPPORTED_SUFFIXES

\* file_allowed_suffixes: the supported suffixes and, behind them, the
\* suffixes of the files named on the command line
RECURSIVE AdditionalSuffixes(_, _)
AdditionalSuffixes(paths, seen) ==
    IF paths = <<>> THEN <<>>
    ELSE LET path == Head(paths)
             sfx == IF path \in FILE_PATHS THEN lower(Suffix(path)) ELSE <<>>
         IN IF sfx # <<>> /\ sfx \notin seen
            THEN (IF sfx \in Range(supported_suffixes) THEN <<>> ELSE <<sfx>>)
                 \o AdditionalSuffixes(Tail(paths), seen \cup {sfx})
            ELSE AdditionalSuffixes(Tail(paths), seen)

\* file_allowed_suffixes without the suffixes of the files named
file_allowed_suffixes_supported_only(paths) == supported_suffixes

file_allowed_suffixes(paths) == supported_suffixes \o AdditionalSuffixes(paths, {})

\* input_path.glob("*" + suffix) for the supported suffixes, sorted by name
DirMatches(d) ==
    SelectSeq(DirEntries(d), LAMBDA f : Suffix(f) \in Range(supported_suffixes))

\* The files of a sequence that are not in a set, in order
RECURSIVE NotIn(_, _)
NotIn(q, seen) ==
    IF q = <<>> THEN <<>>
    ELSE (IF Head(q) \in seen THEN <<>> ELSE <<Head(q)>>) \o NotIn(Tail(q), seen)

(***************************************************************************)
(* main: output names                                                      *)
(***************************************************************************)
\* str(n) for a positive n
DIGITS == <<"0", "1", "2", "3", "4", "5", "6", "7", "8", "9">>

RECURSIVE str(_)
str(n) == IF n < 10 THEN <<DIGITS[n + 1]>> ELSE str(n \div 10) \o <<DIGITS[(n % 10) + 1]>>

\* suffix_with_dot.lstrip(".")
RECURSIVE lstrip_dot(_)
lstrip_dot(t) == IF t # <<>> /\ Head(t) = "." THEN lstrip_dot(Tail(t)) ELSE t

DOXYFILE == <<"d", "o", "x", "y", "f", "i", "l", "e">>

\* stem_groups[stem]
StemGroup(files, stem) == SelectSeq(files, LAMBDA f : Stem(f) = stem)

\* primary_per_stem[stem] when the preferred suffixes are not looked at
PrimaryOf_first_item(files, stem) == StemGroup(files, stem)[1]

\* primary_per_stem[stem]
PrimaryOf(files, stem) ==
    LET items == StemGroup(files, stem)
        preferred == {k \in 1..Len(items) :
                        lower(Suffix(items[k])) \in Range(DEFAULT_SUPPORTED_SUFFIXES)}
    IN IF preferred = {} THEN items[1]
       ELSE items[CHOOSE k \in preferred : \A m \in preferred : k <= m]

\* base_candidate when the primary gets the bare stem whatever its suffix
BaseCandidate_primary_always_bare(files, file_path) ==
    LET stem == Stem(file_path)
        suffix_with_dot == lower(Suffix(file_path))
        suffix == lstrip_dot(suffix_with_dot)
        primary == PrimaryOf(files, stem)
        base_candidate ==
            IF primary = file_path
            THEN (IF stem # <<>> THEN stem ELSE DOXYFILE)
            ELSE IF suffix # <<>> /\ stem # <<>> THEN stem \o <<"_">> \o suffix
            ELSE IF suffix # <<>> THEN suffix
            ELSE IF stem # <<>> THEN stem ELSE DOXYFILE
    IN IF base_candidate = <<>> THEN DOXYFILE ELSE base_candidate

\* base_candidate of a file
BaseCandidate(files, file_path) ==
    LET stem == Stem(file_path)
        suffix_with_dot == lower(Suffix(file_path))
        suffix == lstrip_dot(suffix_with_dot)
        primary == PrimaryOf(files, stem)
        base_candidate ==
            IF primary = file_path /\ is_header_like_suffix(suffix_with_dot)
            THEN (IF stem # <<>> THEN stem ELSE DOXYFILE)
            ELSE IF suffix # <<>> /\ stem # <<>> THEN stem \o <<"_">> \o suffix
            ELSE IF suffix # <<>> THEN suffix
            ELSE IF stem # <<>> THEN stem ELSE DOXYFILE
    IN IF base_candidate = <<>> THEN DOXYFILE ELSE base_candidate

\* An if in the place of the while: the suffixed name is not looked up again
FreeName_single_retry(candidate, base_candidate, suffix_index, used) ==
    IF candidate \in used
    THEN base_candidate \o <<"_">> \o str(suffix_index)
    ELSE candidate

\* The while loop that appends _2, _3, ... to a candidate in use
RECURSIVE FreeName(_, _, _, _)
FreeName(candidate, base_candidate, suffix_index, used) ==
    IF candidate \in used
    THEN FreeName(base_candidate \o <<"_">> \o str(suffix_index), base_candidate,
                  suffix_index + 1, used)
    ELSE candidate

\* The loop over files_to_process: <<output_name_map, used_output_names>>
RECURSIVE AssignNames(_, _, _, _)
AssignNames(files, n, map, used) ==
    IF n > Len(files) THEN <<map, used>>
    ELSE LET base_candidate == BaseCandidate(files, files[n])
             candidate == FreeName(base_candidate, base_candidate, 2, used)
         IN AssignNames(files, n + 1, [map EXCEPT ![files[n]] = candidate],
                        used \cup {candidate})

\* output_name_map.get(path) is None
NO_NAME == <<>>

(***************************************************************************)
(* process_header_file                                                     *)
(***************************************************************************)
\* Modification times: every source, an output from before the run, an
\* output written in the run
SOURCE_MTIME == 2
PREBUILT_MTIME == 3
WRITTEN_MTIME == 4

OutputExists(name) == prebuilt \/ name \in Range(written)

OutputMtime(name) ==
    IF name \in Range(written) THEN WRITTEN_MTIME
    ELSE IF prebuilt THEN PREBUILT_MTIME ELSE 0

ShouldRegenerate(name) ==
    should_regenerate_test_file(SOURCE_MTIME, OutputExists(name),
                                OutputMtime(name), args_force)

\* One call of process_header_file: write_ok says whether open(..., "w")
\* and the write succeed, ret is the value returned
ProcessHeaderFile(header_file_path, output_basename, write_ok, ret) ==
    LET generate_individual == ~combined_requested
        has_tests == header_file_path \in FILES_WITH_TESTS
        entry == header_file_path
    IN /\ extracted' = Append(extracted, header_file_path)
       /\ IF ~has_tests
          THEN IF ~generate_individual
               THEN /\ ret = always
                    /\ UNCHANGED <<written, combined_entries>>
               ELSE IF ~always
               THEN /\ ret = FALSE
                    /\ UNCHANGED <<written, combined_entries>>
               ELSE IF ~ShouldRegenerate(output_basename)
               THEN /\ ret = TRUE
                    /\ UNCHANGED <<written, combined_entries>>
               ELSE IF ~write_ok
               THEN /\ ret = FALSE
                    /\ UNCHANGED <<written, combined_entries>>
               ELSE /\ ret = TRUE
                    /\ written' = Append(written, output_basename)
                    /\ UNCHANGED combined_entries
          ELSE IF ~generate_individual
               THEN /\ ret = TRUE
                    /\ combined_entries' =
                          IF combined_requested
                          THEN Append(combined_entries, entry) ELSE combined_entries
                    /\ UNCHANGED written
               ELSE IF ~ShouldRegenerate(output_basename)
               THEN /\ ret = TRUE
                    /\ combined_entries' =
                          IF combined_requested
                          THEN Append(combined_entries, entry) ELSE combined_entries
                    /\ UNCHANGED written
               ELSE IF ~write_ok
               THEN /\ ret = FALSE
                    /\ UNCHANGED <<written, combined_entries>>
               ELSE /\ ret = TRUE
                    /\ written' = Append(written, output_basename)
                    /\ combined_entries' =
                          IF combined_requested
                          THEN Append(combined_entries, entry) ELSE combined_entries

(***************************************************************************)
(* main                                                                    *)
(***************************************************************************)
InputLists == UNION {[1..n -> FILE_PATHS \cup DIR_PATHS] : n \in 1..MaxInputs}

MainIdle ==
    /\ input_paths = <<>>
    /\ combined_requested = FALSE
    /\ always = FALSE
    /\ args_force = FALSE
    /\ main_pc = "idle"
    /\ scan_idx = 0
    /\ files_to_process = <<>>
    /\ directory_matches = [d \in DIR_PATHS |-> <<>>]
    /\ seen_files = {}
    /\ output_name_map = [f \in FILE_PATHS |-> NO_NAME]
    /\ used_output_names = {}
    /\ proc_idx = 0
    /\ dir_idx = 0
    /\ files_encountered = 0
    /\ total_success = 0
    /\ combined_entries = <<>>
    /\ exit_code = -1
    /\ prebuilt = FALSE
    /\ written = <<>>
    /\ extracted = <<>>

MainInit ==
    /\ input_paths \in InputLists
    /\ combined_requested \in BOOLEAN
    /\ always \in BOOLEAN
    /\ args_force \in BOOLEAN
    /\ prebuilt \in BOOLEAN
    /\ main_pc = "scan"
    /\ scan_idx = 0
    /\ files_to_process = <<>>
    /\ directory_matches = [d \in DIR_PATHS |-> <<>>]
    /\ seen_files = {}
    /\ output_name_map = [f \in FILE_PATHS |-> NO_NAME]
    /\ used_output_names = {}
    /\ proc_idx = 0
    /\ dir_idx = 0
    /\ files_encountered = 0
    /\ total_success = 0
    /\ combined_entries = <<>>
    /\ exit_code = -1
    /\ written = <<>>
    /\ extracted = <<>>

\* first loop over input_paths, a file
ScanFile ==
    /\ main_pc = "scan"
    /\ scan_idx < Len(input_paths)
    /\ LET input_path == input_paths[scan_idx + 1]
           suffix == IF input_path \in FILE_PATHS THEN lower(Suffix(input_path)) ELSE <<>>
       IN /\ input_path \in FILE_PATHS
          /\ IF suffix # <<>> /\ suffix \notin Range(file_allowed_suffixes(input_paths))
             THEN /\ main_pc' = "exited"
                  /\ exit_code' = 1
                  /\ UNCHANGED <<scan_idx, files_to_process, seen_files>>
             ELSE /\ files_to_process' =
                        IF input_path \notin seen_files
                        THEN Append(files_to_process, input_path) ELSE files_to_process
                  /\ seen_files' = seen_files \cup {input_path}
                  /\ scan_idx' = scan_idx + 1
                  /\ UNCHANGED <<main_pc, exit_code>>
    /\ UNCHANGED <<input_paths, combined_requested, always, args_force,
                   directory_matches, output_name_map, used_output_names, proc_idx,
                   dir_idx, files_encountered, total_success, combined_entries,
                   prebuilt, written, extracted>>

\* first loop over input_paths, a directory
ScanDirectory ==
    /\ main_pc = "scan"
    /\ scan_idx < Len(input_paths)
    /\ LET input_path == input_paths[scan_idx + 1]
           header_files == DirMatches(input_path)
           unique_files == NotIn(header_files, seen_files)
       IN /\ input_path \in DIR_PATHS
          /\ directory_matches' = [directory_matches EXCEPT ![input_path] = unique_files]
          /\ files_to_process' = files_to_process \o unique_files
          /\ seen_files' = seen_files \cup Range(unique_files)
    /\ scan_idx' = scan_idx + 1
    /\ UNCHANGED <<input_paths, combined_requested, always, args_force, main_pc,
                   output_name_map, used_output_names, proc_idx, dir_idx,
                   files_encountered, total_success, combined_entries, exit_code,
                   prebuilt, written, extracted>>

\* output_name_map is filled
AssignOutputNames ==
    /\ main_pc = "scan"
    /\ scan_idx = Len(input_paths)
    /\ LET r == AssignNames(files_to_process, 1, output_name_map, {})
       IN /\ output_name_map' = r[1]
          /\ used_output_names' = r[2]
    /\ main_pc' = "process"
    /\ UNCHANGED <<input_paths, combined_requested, always, args_force, scan_idx,
                   files_to_process, directory_matches, seen_files, proc_idx, dir_idx,
                   files_encountered, total_success, combined_entries, exit_code,
                   prebuilt, written, extracted>>

\* ProcessFile ending the run at the first file that did not succeed
ProcessFile_stops_at_failure ==
    /\ main_pc = "process"
    /\ proc_idx < Len(input_paths)
    /\ LET input_path == input_paths[proc_idx + 1]
       IN /\ input_path \in FILE_PATHS
          /\ IF output_name_map[input_path] = NO_NAME
             THEN UNCHANGED <<files_encountered, total_success, combined_entries,
                              written, extracted, main_pc, exit_code>>
             ELSE /\ files_encountered' = files_encountered + 1
                  /\ \E write_ok, ret \in BOOLEAN :
                        /\ ProcessHeaderFile(input_path, output_name_map[input_path],
                                             write_ok, ret)
                        /\ total_success' = total_success + (IF ret THEN 1 ELSE 0)
                        /\ main_pc' = IF ret THEN main_pc ELSE "exited"
                        /\ exit_code' = IF ret THEN exit_code ELSE 1
    /\ proc_idx' = proc_idx + 1
    /\ UNCHANGED <<input_paths, combined_requested, always, args_force,
                   scan_idx, files_to_process, directory_matches, seen_files,
                   output_name_map, used_output_names, dir_idx, prebuilt>>

\* second loop over input_paths, a file
ProcessFile ==
    /\ main_pc = "process"
    /\ proc_idx < Len(input_paths)
    /\ LET input_path == input_paths[proc_idx + 1]
       IN /\ input_path \in FILE_PATHS
          /\ IF output_name_map[input_path] = NO_NAME
             THEN UNCHANGED <<files_encountered, total_success, combined_entries,
                              written, extracted>>
             ELSE /\ files_encountered' = files_encountered + 1
                  /\ \E write_ok, ret \in BOOLEAN :
                        /\ ProcessHeaderFile(input_path, output_name_map[input_path],
                                             write_ok, ret)
                        /\ total_success' = total_success + (IF ret THEN 1 ELSE 0)
    /\ proc_idx' = proc_idx + 1
    /\ UNCHANGED <<input_paths, combined_requested, always, args_force, main_pc,
                   scan_idx, files_to_process, directory_matches, seen_files,
                   output_name_map, used_output_names, dir_idx, exit_code, prebuilt>>

\* second loop over input_paths, a directory without files of its own
ProcessDirectoryEmpty ==
    /\ main_pc = "process"
    /\ proc_idx < Len(input_paths)
    /\ input_paths[proc_idx + 1] \in DIR_PATHS
    /\ directory_matches[input_paths[proc_idx + 1]] = <<>>
    /\ proc_idx' = proc_idx + 1
    /\ UNCHANGED <<input_paths, combined_requested, always, args_force, main_pc,
                   scan_idx, files_to_process, directory_matches, seen_files,
                   output_name_map, used_output_names, dir_idx, files_encountered,
                   total_success, combined_entries, exit_code, prebuilt, written,
                   extracted>>

\* second loop over input_paths, the next file of a directory
ProcessDirectoryFile ==
    /\ main_pc = "process"
    /\ proc_idx < Len(input_paths)
    /\ input_paths[proc_idx + 1] \in DIR_PATHS
    /\ LET header_files == directory_matches[input_paths[proc_idx + 1]]
       IN /\ dir_idx < Len(header_files)
          /\ LET dir_file == header_files[dir_idx + 1]
             IN IF output_name_map[dir_file] = NO_NAME
                THEN UNCHANGED <<files_encountered, total_success, combined_entries,
                                 written, extracted>>
                ELSE /\ files_encountered' = files_encountered + 1
                     /\ \E write_ok, ret \in BOOLEAN :
                           /\ ProcessHeaderFile(dir_file, output_name_map[dir_file],
                                                write_ok, ret)
                           /\ total_success' = total_success + (IF ret THEN 1 ELSE 0)
    /\ dir_idx' = dir_idx + 1
    /\ UNCHANGED <<input_paths, combined_requested, always, args_force, main_pc,
                   scan_idx, files_to_process, directory_matches, seen_files,
                   output_name_map, used_output_names, proc_idx, exit_code, prebuilt>>

\* second loop over input_paths, past the last file of a directory
ProcessDirectoryDone ==
    /\ main_pc = "process"
    /\ proc_idx < Len(input_paths)
    /\ input_paths[proc_idx + 1] \in DIR_PATHS
    /\ directory_matches[input_paths[proc_idx + 1]] # <<>>
    /\ dir_idx = Len(directory_matches[input_paths[proc_idx + 1]])
    /\ dir_idx' = 0
    /\ proc_idx' = proc_idx + 1
    /\ UNCHANGED <<input_paths, combined_requested, always, args_force, main_pc,
                   scan_idx, files_to_process, directory_matches, seen_files,
                   output_name_map, used_output_names, files_encountered,
                   total_success, combined_entries, exit_code, prebuilt, written,
                   extracted>>

\* Finish without the test of total_success
Finish_ignores_total_success ==
    /\ main_pc = "process"
    /\ proc_idx = Len(input_paths)
    /\ main_pc' = "exited"
    /\ IF files_encountered = 0
       THEN /\ exit_code' = 1
            /\ UNCHANGED written
       ELSE IF combined_requested
       THEN \E write_ok \in BOOLEAN :
               IF write_ok
               THEN /\ written' = Append(written, <<"d", "o", "x", "y", "t", "e", "s", "t", "s">>)
                    /\ exit_code' = 0
               ELSE /\ exit_code' = 1
                    /\ UNCHANGED written
       ELSE /\ exit_code' = 0
            /\ UNCHANGED written
    /\ UNCHANGED <<input_paths, combined_requested, always, args_force, scan_idx,
                   files_to_process, directory_matches, seen_files, output_name_map,
                   used_output_names, proc_idx, dir_idx, files_encountered,
                   total_success, combined_entries, prebuilt, extracted>>

\* behind the loops: the exit status and the combined file
Finish ==
    /\ main_pc = "process"
    /\ proc_idx = Len(input_paths)
    /\ main_pc' = "exited"
    /\ IF files_encountered = 0 \/ total_success = 0
       THEN /\ exit_code' = 1
            /\ UNCHANGED written
       ELSE IF combined_requested
       THEN \E write_ok \in BOOLEAN :
               IF write_ok
               THEN /\ written' = Append(written, <<"d", "o", "x", "y", "t", "e", "s", "t", "s">>)
                    /\ exit_code' = 0
               ELSE /\ exit_code' = 1
                    /\ UNCHANGED written
       ELSE /\ exit_code' = 0
            /\ UNCHANGED written
    /\ UNCHANGED <<input_paths, combined_requested, always, args_force, scan_idx,
                   files_to_process, directory_matches, seen_files, output_name_map,
                   used_output_names, proc_idx, dir_idx, files_encountered,
                   total_success, combined_entries, prebuilt, extracted>>

MainNext ==
    \/ ScanFile
    \/ ScanDirectory
    \/ AssignOutputNames
    \/ ProcessFile
    \/ ProcessDirectoryEmpty
    \/ ProcessDirectoryFile
    \/ ProcessDirectoryDone
    \/ Finish

(***************************************************************************)
(* Specifications: one per component, the other components idle            *)
(***************************************************************************)
\* extract_code_blocks scanning one file
Init == ExInit /\ GateIdle /\ GenIdle /\ RunIdle /\ MainIdle

Next == ExNext /\ UNCHANGED <<gateVars, genVars, runVars, mainVars>>

Spec == Init /\ [][Next]_vars

\* extract_code_blocks on files of several blocks
InitBlocks == ExInitBlocks /\ GateIdle /\ GenIdle /\ RunIdle /\ MainIdle

SpecBlocks == InitBlocks /\ [][Next]_vars

\* should_regenerate_test_file called once
InitGate == GateInit /\ ExIdle /\ GenIdle /\ RunIdle /\ MainIdle

NextGate == GateNext /\ UNCHANGED <<exVars, genVars, runVars, mainVars>>

SpecGate == InitGate /\ [][NextGate]_vars

\* a harness generated from a list of code blocks, then run
InitGen == GenInit /\ RunIdle /\ ExIdle /\ GateIdle /\ MainIdle

NextGen == GenNext /\ UNCHANGED <<exVars, gateVars, mainVars>>

SpecGen == InitGen /\ [][NextGen]_vars

\* one run of main
InitMain == MainInit /\ ExIdle /\ GateIdle /\ GenIdle /\ RunIdle

NextMain == MainNext /\ UNCHANGED <<exVars, gateVars, genVars, runVars>>

SpecMain == InitMain /\ [][NextMain]_vars

(***************************************************************************)
(* Properties of extract_code_blocks                                       *)
(***************************************************************************)
SLASH3 == <<"/", "/", "/">>
SLASHBANG == <<"/", "/", "!">>
SLASH2 == <<"/", "/">>

\* The text of a line behind its leading whitespace
Body(line) == lstrip(line)

\* The line begins with one of the comment prefixes the code knows
HasCommentPrefix(line) ==
    \E k \in 1..Len(COMMENT_PREFIX_CANDIDATES) :
        startswith(Body(line), COMMENT_PREFIX_CANDIDATES[k])

\* The comment-prefix family an opening line implies: the exact line prefix,
\* the star continuation for block comments, nothing for a bare fence
FamilyOfOpener(line) ==
    IF startswith(Body(line), SLASH3) THEN {SLASH3}
    ELSE IF startswith(Body(line), SLASHBANG) THEN {SLASHBANG}
    ELSE IF startswith(Body(line), SLASH2) THEN {SLASH2}
    ELSE IF startswith(Body(line), <<"/", "*">>) \/ startswith(Body(line), <<"*">>)
    THEN {<<"*">>, <<" ", "*">>}
    ELSE {}

\* The line begins with a prefix of the family
MatchesFamily(line, family) == \E p \in family : startswith(Body(line), p)

\* What is left of a line of the family behind its prefix and one blank
BehindPrefix(line, family) ==
    LET ps == {q \in family : startswith(Body(line), q)}
        p == CHOOSE q \in ps : \A r \in ps : Len(r) <= Len(q)
        rest == SubSeq(Body(line), Len(p) + 1, Len(Body(line)))
    IN rstrip_newline(IF rest # <<>> /\ Head(rest) \in {" ", "\t"}
                      THEN Tail(rest) ELSE rest)

\* A line whose text behind the remembered prefix (if it has it) starts a fence
ClosingLine(line, family) ==
    IF MatchesFamily(line, family)
    THEN startswith(lstrip(BehindPrefix(line, family)), FENCE)
    ELSE startswith(Body(line), FENCE)

\* The trimmed, case-folded language tag written on the opening fence of line n
OpeningTag(n) ==
    LET line == lines[n]
        text == IF HasCommentPrefix(line)
                THEN lstrip(BehindPrefix(line, ANY_PREFIX \ {<<" ", "*">>}))
                ELSE lstrip(rstrip_newline(line))
    IN lower(strip(SubSeq(text, 4, Len(text))))

\* The classification table of the specification
KindByTag(tag) ==
    CASE tag \in {<<>>, <<"c", "p", "p">>, <<"c", "+", "+">>} -> "test"
      [] tag \in {<<"d", "o", "x", "y">>,
                  <<"d", "o", "x", "y", "t", "e", "s", "t">>} -> "setup"
      [] OTHER -> None

\* The block opened last, in an open state
OpenFamily == FamilyOfOpener(lines[start_line])

\* A step of the inner loop that keeps the block open / that closes it on a line
CollectStep == xpc = "inblock" /\ xpc' = "inblock" /\ i' = i + 1
CloseStep == xpc = "inblock" /\ xpc' = "outside" /\ i' = i + 1

\* C1: the kind of a block is decided by the trimmed, case-folded tag of its
\* opening fence alone: "", cpp, c++ give a Test block, doxy and doxytest a
\* Setup block, and a block with any other tag collects no line and yields
\* no CodeBlock.
C1_ClassificationByTag ==
    /\ xpc = "inblock" =>
          /\ block_kind = KindByTag(OpeningTag(start_line))
          /\ (block_kind = None => code_content = <<>>)
    /\ \A k \in 1..Len(code_blocks) :
          /\ code_blocks[k].kind \in {"test", "setup"}
          /\ code_blocks[k].kind = KindByTag(OpeningTag(code_blocks[k].line))

\* C1 witness: a block opened with the tag sh has consumed a content line and
\* its closing fence, the scan is over and there is no CodeBlock
C1_Witness ==
    /\ xpc = "returned"
    /\ Len(lines) = 3
    /\ OpeningTag(1) = <<"s", "h">>
    /\ lines[2] = <<"/", "/", "/", " ", "x">> \o NL
    /\ ClosingLine(lines[3], {SLASH3})
    /\ code_blocks = <<>>

\* C4 as stated: while a block is open, a line that does not match the
\* remembered prefix family contributes nothing to the block's text.
C4_OnlyFamilyLinesContribute ==
    [][(/\ CollectStep
        /\ OpenFamily # {}
        /\ ~MatchesFamily(CurrentLine, OpenFamily)
        /\ strip(CurrentLine) # <<>>)
         => code_content' = code_content]_vars

\* C4 amended: while a Test or Setup block is open, every line before the
\* closing fence contributes exactly one content line; a line of the
\* remembered family contributes its text behind the prefix and one blank,
\* any other line (a different prefix family, or no prefix) contributes its
\* whole text, prefix included; an ignored block collects nothing.
C4_EveryLineContributes ==
    [][CollectStep =>
         /\ allowed_prefixes = OpenFamily
         /\ IF block_kind = None
            THEN code_content' = code_content
            ELSE IF MatchesFamily(CurrentLine, OpenFamily)
            THEN code_content' =
                     Append(code_content, BehindPrefix(CurrentLine, OpenFamily))
            ELSE code_content' = Append(code_content, rstrip_newline(CurrentLine))]_vars

\* C4 witness: a //! line is part of the content of a block opened with ///
C4_Witness ==
    /\ xpc = "inblock"
    /\ block_kind = "test"
    /\ OpenFamily = {SLASH3}
    /\ \E k \in 1..Len(code_content) : startswith(code_content[k], SLASHBANG)

\* C5 as stated: an open block is closed only by a line of the remembered
\* prefix family; a line with another prefix or with none never closes it.
C5_OnlyFamilyLinesClose ==
    [][(CloseStep /\ OpenFamily # {}) => MatchesFamily(CurrentLine, OpenFamily)]_vars

\* C5 amended: an open block is ended by the first line whose text, behind
\* leading whitespace and the remembered prefix when the line begins with it,
\* starts with a fence, and by no earlier line; a line that begins with a
\* different comment prefix never closes the block, a line without comment
\* prefix that begins with a fence does; the closing line is consumed and is
\* not part of the content.
C5_FirstFenceCloses ==
    [][(xpc = "inblock" /\ i < Len(lines) /\ i' # i) =>
         /\ i' = i + 1
         /\ (xpc' = "outside") = ClosingLine(CurrentLine, OpenFamily)
         /\ (xpc' = "inblock") = ~ClosingLine(CurrentLine, OpenFamily)
         /\ (xpc' = "outside" /\ HasCommentPrefix(CurrentLine))
               => MatchesFamily(CurrentLine, OpenFamily)
         /\ xpc' = "outside" =>
               /\ code_content' = code_content
               /\ \/ code_blocks' = code_blocks
                  \/ /\ Len(code_blocks') = Len(code_blocks) + 1
                     /\ SubSeq(code_blocks', 1, Len(code_blocks)) = code_blocks
                     /\ code_blocks'[Len(code_blocks')].code = strip(join(code_content))]_vars

\* C5 witness: a fence without comment prefix has closed a block opened with ///
C5_Witness ==
    /\ xpc = "outside"
    /\ start_line > 0
    /\ i > start_line
    /\ OpenFamily = {SLASH3}
    /\ startswith(Body(lines[i]), FENCE)
    /\ Len(code_blocks) > 0
    /\ code_blocks[Len(code_blocks)].line = start_line

\* C9: should_regenerate_test_file returns false exactly when the output
\* exists, force is not set and the source is not newer than the output.
C9_FalseOnlyWhenUpToDate ==
    gate_pc = "returned" =>
        (regenerate = FALSE) =
            (test_exists /\ ~force /\ header_mtime <= test_mtime)

\* C9 witness: an existing output as old as its source is not regenerated
C9_Witness ==
    /\ gate_pc = "returned"
    /\ regenerate = FALSE
    /\ test_exists
    /\ header_mtime = test_mtime

\* What line k contributes to the block opened on line n
LineContent(n, k) ==
    IF MatchesFamily(lines[k], FamilyOfOpener(lines[n]))
    THEN BehindPrefix(lines[k], FamilyOfOpener(lines[n]))
    ELSE rstrip_newline(lines[k])

\* The line that closes the block opened on line n, Len(lines) + 1 when no
\* line does
BlockEnd(n) ==
    LET C == {m \in (n + 1)..Len(lines) :
                 ClosingLine(lines[m], FamilyOfOpener(lines[n]))}
    IN IF C = {} THEN Len(lines) + 1 ELSE CHOOSE m \in C : \A c \in C : m <= c

\* The text of the block opened on line n, from its own lines
OwnText(n) ==
    LET last == BlockEnd(n) - 1
    IN IF last <= n THEN <<>>
       ELSE strip(join([j \in 1..(last - n) |-> LineContent(n, n + j)]))

\* The input has ended while a block is open
OpenAtEnd == xpc = "inblock" /\ i >= Len(lines)

\* C19: when the input ends while a Test or Setup block is open, the block
\* is closed there: it has collected every line behind its opening fence,
\* it is emitted with that content when the content is non-empty after
\* trimming, and the scan ends.
C19_ImplicitCloseAtEnd ==
    /\ [](/\ OpenAtEnd =>
               /\ i = Len(lines)
               /\ BlockEnd(start_line) = Len(lines) + 1
               /\ block_kind # None => Len(code_content) = Len(lines) - start_line
          /\ xpc = "returned" => i = Len(lines))
    /\ [][OpenAtEnd =>
            /\ xpc' = "outside"
            /\ i' = i
            /\ IF block_kind \in {"test", "setup"} /\ OwnText(start_line) # <<>>
               THEN code_blocks' =
                       Append(code_blocks, [line |-> start_line,
                                            code |-> OwnText(start_line),
                                            kind |-> block_kind])
               ELSE code_blocks' = code_blocks]_vars
    /\ [][(xpc = "outside" /\ i >= Len(lines)) =>
             (xpc' = "returned" /\ code_blocks' = code_blocks)]_vars

\* C19 witness: the block opened on line 1 of a file of three lines has no
\* closing fence; it was emitted with its two content lines and the scan is
\* over
C19_Witness ==
    /\ xpc = "returned"
    /\ Len(lines) = 3
    /\ start_line = 1
    /\ Len(code_content) = 2
    /\ Len(code_blocks) = 1
    /\ code_blocks[1].line = 1
    /\ code_blocks[1].code = OwnText(1)

\* A step that closes the open block, on a fence or at the end of the input
BlockCloses == xpc = "inblock" /\ xpc' = "outside"

\* C20: every CodeBlock has non-empty text after trimming and kind Test or
\* Setup; a Test or Setup fence whose content is empty or blank yields no
\* CodeBlock, leaves the blocks emitted before as they are, and the blocks
\* emitted behind it have the text of their own lines.
C20_NoEmptyBlocks ==
    /\ [](\A k \in 1..Len(code_blocks) :
             /\ code_blocks[k].code # <<>>
             /\ strip(code_blocks[k].code) = code_blocks[k].code
             /\ code_blocks[k].kind \in {"test", "setup"}
             /\ code_blocks[k].code = OwnText(code_blocks[k].line))
    /\ [][(BlockCloses /\ OwnText(start_line) = <<>>) =>
             code_blocks' = code_blocks]_vars
    /\ [][(BlockCloses /\ block_kind # None /\ OwnText(start_line) # <<>>) =>
             /\ Len(code_blocks') = Len(code_blocks) + 1
             /\ SubSeq(code_blocks', 1, Len(code_blocks)) = code_blocks
             /\ code_blocks'[Len(code_blocks')].line = start_line]_vars

\* C20 witness: the Test fence of line 1 is closed on line 2 with nothing
\* in between, and the block opened on line 3 is the only CodeBlock
C20_Witness ==
    /\ xpc = "returned"
    /\ Len(lines) = 5
    /\ BlockEnd(1) = 2
    /\ KindByTag(OpeningTag(1)) = "test"
    /\ OwnText(1) = <<>>
    /\ Len(code_blocks) = 1
    /\ code_blocks[1].line = 3
    /\ code_blocks[1].code = <<"x">>

\* The text of line n behind its comment prefix and leading whitespace
OpeningText(n) ==
    IF HasCommentPrefix(lines[n])
    THEN lstrip(BehindPrefix(lines[n], ANY_PREFIX \ {<<" ", "*">>}))
    ELSE lstrip(rstrip_newline(lines[n]))

\* A text behind all the backticks it begins with
RECURSIVE DropBackticks(_)
DropBackticks(t) == IF t # <<>> /\ Head(t) = BT THEN DropBackticks(Tail(t)) ELSE t

\* The tag behind a fence of three or more backticks
TagBehindFence(n) == lower(strip(DropBackticks(OpeningText(n))))

\* C21: an opening fence may have three or more backticks: a line whose
\* stripped content is three, four or more backticks followed by the tag cpp
\* or by no tag opens a block that is classified as Test.
C21_LongFenceOpensTest ==
    (xpc = "inblock"
       /\ startswith(OpeningText(start_line), FENCE)
       /\ TagBehindFence(start_line) \in {<<>>, <<"c", "p", "p">>})
      => block_kind = "test"

\* The last line of the input that belongs to the block opened on line n
LastLine(n) == IF BlockEnd(n) > Len(lines) THEN Len(lines) ELSE BlockEnd(n)

\* How far the scan is from its end: the lines not read yet, then the loops
\* still to leave
Variant ==
    3 * (Len(lines) - i)
      + (CASE xpc = "inblock" -> 2 [] xpc = "outside" -> 1 [] OTHER -> 0)

\* C23: the scan of extract_code_blocks terminates: every step that reads a
\* line moves the index forward by one, the index never passes the end,
\* behind the last line the two loops are left one after the other, so
\* that every step lowers Variant, which is never negative; the
\* CodeBlocks are emitted in source order with strictly increasing 1-based
\* opening lines, each the line of the block's opening fence, and no line is
\* the opening fence, a content line or the closing fence of two blocks.
C23_ScanTerminatesAndBlocksAreDisjoint ==
    /\ [](/\ i \in 0..Len(lines)
          /\ xpc \in {"outside", "inblock", "returned"}
          /\ xpc = "returned" => i = Len(lines)
          /\ xpc = "inblock" =>
                /\ start_line \in 1..i
                /\ BlockEnd(start_line) > i
                /\ \A k \in 1..Len(code_blocks) :
                      LastLine(code_blocks[k].line) < start_line
          /\ \A k \in 1..Len(code_blocks) :
                /\ code_blocks[k].line \in 1..Len(lines)
                /\ startswith(OpeningText(code_blocks[k].line), FENCE)
                /\ code_blocks[k].kind = KindByTag(OpeningTag(code_blocks[k].line))
                /\ LastLine(code_blocks[k].line) <= i
                /\ k < Len(code_blocks) =>
                      LastLine(code_blocks[k].line) < code_blocks[k + 1].line)
    /\ [][/\ Variant' < Variant
          /\ i < Len(lines) => i' = i + 1
          /\ i >= Len(lines) => i' = i
          /\ xpc = "inblock" => start_line' = start_line
          /\ (xpc = "outside" /\ xpc' = "inblock") => start_line' = i + 1
          /\ \/ code_blocks' = code_blocks
             \/ /\ xpc = "inblock"
                /\ code_blocks' = Append(code_blocks, code_blocks'[Len(code_blocks')])
                /\ code_blocks'[Len(code_blocks')].line = start_line]_vars

\* C23 witness: a file of five lines was scanned to its end; the block of
\* lines 1 to 3 and the block of lines 4 and 5 were emitted in that order
C23_Witness ==
    /\ xpc = "returned"
    /\ Len(lines) = 5
    /\ i = 5
    /\ Len(code_blocks) = 2
    /\ code_blocks[1].line = 1
    /\ BlockEnd(1) = 3
    /\ code_blocks[2].line = 4

(***************************************************************************)
(* Properties of the harness generators and of the generated program       *)
(***************************************************************************)
Generated == gen_pc \in {"running", "exited", "returned"}

Stmts == Statements(test_body_lines)

PositionsOf(op, code) ==
    {p \in 1..Len(Stmts) : Stmts[p].op = op /\ Stmts[p].code = code}

\* The tests behind block s of a block list
TestsAfter(blocks, s) == {t \in (s + 1)..Len(blocks) : blocks[t].kind = "test"}

FirstTestAfter(blocks, s) ==
    CHOOSE t \in TestsAfter(blocks, s) : \A u \in TestsAfter(blocks, s) : t <= u

\* C2: every Setup block with a Test block behind it in its block list is in
\* the generated body exactly once, in a run of Setup blocks in source order
\* that ends immediately before the first Test block that follows it.
C2_SetupFlushedOnce ==
    Generated =>
      \A e \in 1..Len(entries) :
        LET blocks == entries[e].code_blocks
        IN \A s \in 1..Len(blocks) :
             (blocks[s].kind = "setup" /\ TestsAfter(blocks, s) # {}) =>
               LET t == FirstTestAfter(blocks, s)
                   P == PositionsOf("setup", blocks[s].code)
               IN /\ Cardinality(P) = 1
                  /\ \A p \in P :
                       /\ p + (t - s) <= Len(Stmts)
                       /\ \A d \in 0..(t - s - 1) :
                            /\ Stmts[p + d].op = "setup"
                            /\ Stmts[p + d].code = blocks[s + d].code
                       /\ Stmts[p + (t - s)].op = "test"
                       /\ Stmts[p + (t - s)].code = blocks[t].code

\* C2 witness: a harness generated from a Setup block followed by two Test blocks
C2_Witness ==
    /\ Generated
    /\ \E e \in 1..Len(entries) :
         /\ Len(entries[e].code_blocks) = 3
         /\ entries[e].code_blocks[1].kind = "setup"
         /\ entries[e].code_blocks[2].kind = "test"
         /\ entries[e].code_blocks[3].kind = "test"

\* C3: a Setup block with no Test block behind it in the block list of its
\* source file is nowhere in the generated body, per file and combined.
C3_TrailingSetupNeverEmitted ==
    \A e \in 1..Len(entries) :
      LET blocks == entries[e].code_blocks
      IN \A s \in 1..Len(blocks) :
           (blocks[s].kind = "setup" /\ TestsAfter(blocks, s) = {}) =>
              \A p \in 1..Len(test_body_lines) :
                 test_body_lines[p].code # blocks[s].code

\* C3 witness: a combined harness whose first source file ends with a Setup
\* block and whose second source file has a Test block
C3_Witness ==
    /\ Generated
    /\ combined
    /\ Len(entries) = 2
    /\ entries[1].code_blocks[Len(entries[1].code_blocks)].kind = "setup"
    /\ PositionsOf("test", entries[2].code_blocks[1].code) # {}

\* The progress lines printed so far
RECURSIVE ProgressLines(_)
ProgressLines(out) ==
    IF out = <<>> THEN <<>>
    ELSE (IF Head(out).k = "progress" THEN <<Head(out)>> ELSE <<>>)
         \o ProgressLines(Tail(out))

\* The number of test statements among the first n statements
TestsUpTo(n) == Cardinality({p \in 1..n : Stmts[p].op = "test"})

RECURSIVE TestOrigins(_, _)
TestOrigins(blocks, file) ==
    IF blocks = <<>> THEN <<>>
    ELSE (IF Head(blocks).kind = "test"
          THEN <<[file |-> file, line |-> Head(blocks).line]>> ELSE <<>>)
         \o TestOrigins(Tail(blocks), file)

\* The Test blocks of all source files of a harness, in order
RECURSIVE AllTestOrigins(_)
AllTestOrigins(es) ==
    IF es = <<>> THEN <<>>
    ELSE TestOrigins(Head(es).code_blocks, Head(es).header_display)
         \o AllTestOrigins(Tail(es))

\* The number of tests reported as failed so far
NumFAIL == Cardinality({p \in 1..Len(stderr) : stderr[p].k = "FAIL"})

SummaryKinds == {"all_passed", "fail_summary"}

NumSummaries == Cardinality({p \in 1..Len(stderr) : stderr[p].k \in SummaryKinds})

\* C11: a generated program that runs through all its tests without
\* reaching max_fails prints the final summary, and its status is nonzero
\* if and only if at least one test was reported as failed.
C11_SummaryAndStatus ==
    /\ gen_pc = "returned" =>
          /\ Len(ProgressLines(stderr)) = test_count
          /\ NumSummaries = 1
          /\ stderr[Len(stderr) - NumFAIL].k \in SummaryKinds
          /\ (exit_status # 0) <=> (NumFAIL > 0)
          /\ exit_status \in {0, 1}
    /\ gen_pc = "running" => NumSummaries = 0 /\ exit_status = -1

\* C11 witness: the program has returned with one failed test behind it
C11_Witness ==
    /\ gen_pc = "returned"
    /\ NumFAIL = 1
    /\ exit_status = 1
    /\ stderr[Len(stderr) - 1].k = "fail_summary"

\* C12: a per-file harness built from a block list with n Test blocks
\* declares test_count = n; run, it prints the progress lines test 1/n,
\* test 2/n, ... in the source order of the Test blocks, each with its
\* block's opening line, all n of them when it runs to the end, and the
\* all-passed summary when no test failed.
C12_PerFileCountAndProgress ==
    (Generated /\ ~combined) =>
        LET origins == TestOrigins(entries[1].code_blocks, entries[1].header_display)
            n == Len(origins)
            progress == ProgressLines(stderr)
        IN /\ test_count = n
           /\ stderr[1] = [k |-> "running", count |-> n]
           /\ Len(progress) <= n
           /\ \A t \in 1..Len(progress) :
                 progress[t] = [k |-> "progress", test |-> t, test_count |-> n,
                                file |-> origins[t].file, line |-> origins[t].line]
           /\ gen_pc = "returned" => Len(progress) = n
           /\ (gen_pc = "returned" /\ NumFAIL = 0) =>
                 stderr[Len(stderr)] = [k |-> "all_passed", test_count |-> n]

\* C12 witness: a harness of a Setup block and two Test blocks has run to
\* the end and both tests passed
C12_Witness ==
    /\ gen_pc = "returned"
    /\ ~combined
    /\ Len(entries[1].code_blocks) = 3
    /\ entries[1].code_blocks[1].kind = "test"
    /\ entries[1].code_blocks[2].kind = "setup"
    /\ entries[1].code_blocks[3].kind = "test"
    /\ test_count = 2
    /\ NumFAIL = 0
    /\ stderr[Len(stderr)].k = "all_passed"

C14_OriginOfEveryTest ==
    (Generated /\ combined) =>
        LET origins == AllTestOrigins(entries)
            progress == ProgressLines(stderr)
        IN /\ AtStatement("test") =>
                 header_file = entries[CurrentStatement.code[1]].header_display
           /\ Len(progress) <= Len(origins)
           /\ \A t \in 1..Len(progress) :
                 /\ progress[t].file = origins[t].file
                 /\ progress[t].line = origins[t].line
           /\ \A p \in 1..Len(stderr) :
                 stderr[p].k = "FAIL" =>
                    /\ stderr[p - 1].k = "progress"
                    /\ stderr[p + 1] = FailureMessage(stderr[p - 1].file, stderr[p - 1].line)
           /\ \A m \in 1..Len(failed_messages) :
                 \E t \in 1..Len(progress) :
                    failed_messages[m] = FailureMessage(origins[t].file, origins[t].line)

\* C14 witness: a test of the second source file has failed after a test of
\* the first source file has run
C14_Witness ==
    /\ Generated
    /\ combined
    /\ Len(entries) = 2
    /\ \E p \in 2..Len(stderr) :
          /\ stderr[p].k = "FAIL"
          /\ stderr[p - 1].file = "b.h"
          /\ stderr[p + 1].file = "b.h"
    /\ \E t \in 1..Len(ProgressLines(stderr)) : ProgressLines(stderr)[t].file = "a.h"

Count(q, x) == Cardinality({k \in 1..Len(q) : q[k] = x})

Named == main_pc \in {"process", "exited"}

FOO == <<"f", "o", "o">>
FOO_MD == <<"f", "o", "o", "_", "m", "d">>
FOO_H == <<"f", "o", "o", "_", "h">>

\* C6: in one run every distinct input file is processed exactly once: it is
\* extracted once, at most one artifact is written for it and it has at most
\* one entry in the combined aggregate, however often and however it is
\* named; and when the run is over no selected file is left unprocessed.
C6_EachFileProcessedOnce ==
    /\ \A f \in FILE_PATHS :
          /\ Count(extracted, f) <= 1
          /\ Count(combined_entries, f) <= 1
          /\ output_name_map[f] # NO_NAME => Count(written, output_name_map[f]) <= 1
    /\ main_pc = "exited" =>
          \A f \in Range(files_to_process) : Count(extracted, f) = 1

\* C7: when the files of a run are foo.h and foo.md, in either order, foo.h
\* is given the base name "foo" and foo.md the base name "foo_md".
C7_FooAndFooMd ==
    \A h \in {"inc/foo.h", "src/foo.h"} :
        (Named /\ Range(files_to_process) = {h, "doc/foo.md"}) =>
            /\ output_name_map[h] = FOO
            /\ output_name_map["doc/foo.md"] = FOO_MD

\* foo.md is named before foo.h and both have their names
C7_Witness ==
    /\ Named
    /\ input_paths = <<"doc/foo.md", "inc/foo.h">>
    /\ files_to_process = <<"doc/foo.md", "inc/foo.h">>
    /\ output_name_map["inc/foo.h"] = FOO
    /\ output_name_map["doc/foo.md"] = FOO_MD

\* C8: the base names given in one run are pairwise distinct; a file whose
\* candidate is not yet given keeps it, and otherwise gets the candidate with
\* the least of the suffixes _2, _3, ... that is not yet given, also when
\* that name is the candidate of a file of its own.
C8_NamesDistinctFirstUnused ==
    Named =>
        \A n \in 1..Len(files_to_process) :
            LET name == output_name_map[files_to_process[n]]
                earlier == {output_name_map[files_to_process[m]] : m \in 1..(n - 1)}
                base == BaseCandidate(files_to_process, files_to_process[n])
                Suffixed(k) == base \o <<"_">> \o str(k)
            IN /\ name # NO_NAME
               /\ name \notin earlier
               /\ IF base \notin earlier THEN name = base
                  ELSE \E k \in 2..(Len(files_to_process) + 1) :
                          /\ name = Suffixed(k)
                          /\ \A j \in 2..(k - 1) : Suffixed(j) \in earlier

\* src/foo.h comes behind foo.h, foo_h.h and foo_h_2.h: its candidate foo_h
\* and foo_h_2 are both given, and it is named foo_h_3
C8_Witness ==
    /\ Named
    /\ files_to_process = <<"inc/foo.h", "inc/foo_h.h", "inc/foo_h_2.h", "src/foo.h">>
    /\ output_name_map["inc/foo_h_2.h"] = FOO_H \o <<"_", "2">>
    /\ output_name_map["src/foo.h"] = FOO_H \o <<"_", "3">>

\* The files named on the command line
ExplicitFiles == {input_paths[k] : k \in 1..Len(input_paths)} \cap FILE_PATHS

\* The files named whose extension is not an accepted one
UnacceptedExplicitFiles ==
    {f \in ExplicitFiles : lower(Suffix(f)) \notin Range(supported_suffixes)}

\* The run has gone through both loops of main
RanToTheEnd == main_pc = "exited" /\ proc_idx = Len(input_paths)

\* C15 as stated: when a file named on the command line has an extension
\* that is not an accepted one, the run ends with a fatal error, no file is
\* processed and no artifact is written.
C15_UnacceptedExtensionIsFatal ==
    UnacceptedExplicitFiles # {} =>
        /\ extracted = <<>>
        /\ written = <<>>
        /\ main_pc = "exited" => exit_code = 1

\* C15: a file named on the command line whose extension is not an accepted
\* one is not refused: its extension is allowed for the files named (not for
\* directory scans), the file is selected and named, the run goes through
\* both loops and the file is processed.
C15_NamedFileExtendsAccepted ==
    /\ \A f \in UnacceptedExplicitFiles :
          /\ f \in seen_files => f \in Range(files_to_process)
          /\ Named => output_name_map[f] # NO_NAME
          /\ main_pc = "exited" => f \in Range(extracted)
    /\ main_pc = "exited" => proc_idx = Len(input_paths)
    /\ \A d \in DIR_PATHS : \A k \in 1..Len(directory_matches[d]) :
          Suffix(directory_matches[d][k]) \in Range(supported_suffixes)

\* C15 witness: doc/foo.hh alone is named; it is processed, its artifact is
\* written and the run ends with status 0
C15_Witness ==
    /\ main_pc = "exited"
    /\ input_paths = <<"doc/foo.hh">>
    /\ extracted = <<"doc/foo.hh">>
    /\ written = <<FOO>>
    /\ exit_code = 0

\* The files without a Test block that were processed
NoTestFiles == Range(extracted) \ FILES_WITH_TESTS

\* No artifact is there for a file without Test blocks when no placeholder
\* is requested
NoArtifactWithoutTests ==
    ~always =>
        \A f \in NoTestFiles :
            /\ output_name_map[f] \notin Range(written)
            /\ f \notin Range(combined_entries)

\* C16 as stated: a file without Test blocks, no placeholder requested,
\* produces no artifact and is no error, also when every input of the run is
\* such a file: the run then ends with status 0.
C16_NoTestsIsNoFailure ==
    /\ NoArtifactWithoutTests
    /\ (RanToTheEnd /\ ~always /\ extracted # <<>> /\ Range(extracted) = NoTestFiles)
          => exit_code = 0

\* C16: a file without Test blocks, no placeholder requested, produces no
\* artifact and stops nothing: the files named behind it are processed and
\* a run in which an artifact was written ends with status 0; but the file
\* does not count as a success, and a run whose every processed file is
\* such a file ends with status 1.
C16_NoTestsNoArtifactNoSuccess ==
    /\ NoArtifactWithoutTests
    /\ main_pc = "exited" => ExplicitFiles \subseteq Range(extracted)
    /\ (RanToTheEnd /\ ~always /\ ~combined_requested /\ written # <<>>)
          => exit_code = 0
    /\ (RanToTheEnd /\ ~always /\ Range(extracted) = NoTestFiles)
          => (exit_code = 1 /\ written = <<>> /\ total_success = 0)

\* C16 witness: doc/foo.md has no Test block and is the only input; the run
\* has ended with status 1 and written nothing
C16_Witness ==
    /\ RanToTheEnd
    /\ ~always
    /\ input_paths = <<"doc/foo.md">>
    /\ extracted = <<"doc/foo.md">>
    /\ written = <<>>
    /\ exit_code = 1

\* C17: in a run that writes per-file artifacts, a write that fails is
\* local: what was written stays written, every file named is still
\* processed, and the run ends with a failure status only if no artifact
\* succeeded.
C17_WriteFailureIsLocal ==
    /\ [](~combined_requested =>
            /\ main_pc = "exited" => ExplicitFiles \subseteq Range(extracted)
            /\ main_pc = "exited" => proc_idx = Len(input_paths)
            /\ (main_pc = "exited" /\ exit_code # 0) => (written = <<>> /\ total_success = 0)
            /\ main_pc # "exited" => exit_code = -1)
    /\ [][Len(written') >= Len(written)
          /\ SubSeq(written', 1, Len(written)) = written]_vars

\* C17 witness: inc/foo.h and src/foo.h both have tests and no output is
\* there beforehand; the write for inc/foo.h failed, src/foo.h was processed
\* behind it and written, and the run ended with status 0
C17_Witness ==
    /\ main_pc = "exited"
    /\ ~combined_requested
    /\ ~prebuilt
    /\ input_paths = <<"inc/foo.h", "src/foo.h">>
    /\ extracted = <<"inc/foo.h", "src/foo.h">>
    /\ written = <<FOO_H>>
    /\ exit_code = 0

\* The files of a run that share the stem of f, in encounter order
GroupOf(f) == SelectSeq(files_to_process, LAMBDA g : Stem(g) = Stem(f))

HEADER_LIKE == { <<".", "h">>, <<".", "h", "p", "p">>, <<".", "h", "h">>,
                 <<".", "h", "x", "x">>, <<".", "h", "p">>, <<".", "h", "+", "+">> }

CANONICAL == { <<".", "h">>, <<".", "h", "p", "p">> }

FirstIn(group, suffixes) ==
    LET K == {k \in 1..Len(group) : Suffix(group[k]) \in suffixes}
    IN IF K = {} THEN group[1] ELSE group[CHOOSE k \in K : \A m \in K : k <= m]

\* The candidate name when the primary is picked among the given suffixes
CandidateBy(f, suffixes) ==
    IF FirstIn(GroupOf(f), suffixes) = f /\ Suffix(f) \in HEADER_LIKE
    THEN Stem(f)
    ELSE Stem(f) \o <<"_">> \o Tail(Suffix(f))

EarlierNames(n) == {output_name_map[files_to_process[m]] : m \in 1..(n - 1)}

\* The files of the group of f that were given the bare stem as name
BareStemFiles(f) ==
    {k \in 1..Len(GroupOf(f)) : output_name_map[GroupOf(f)[k]] = Stem(f)}

====
